---- MODULE Spec2Model ----
(***************************************************************************)
(* Model of edward/inferences/metropolis_hastings.py: the construction of  *)
(* a MetropolisHastings inference, the graph built by build_update, and    *)
(* the execution of the grouped update op, one step per time index t.      *)
(***************************************************************************)
EXTENDS Integers, Sequences, FiniteSets, TLC

\* ------------------------------------------------------------ bounds
\* Length T of every Empirical store (the number of steps of the chain).
MaxT == 2
\* Number of op hops between qz.params and the tf.Variable: 0..MaxDepth.
MaxDepth == 3
\* log(u) is drawn from -infinity and -MaxLogU..-1.
MaxLogU == 1

Latents == {"z1", "z2"}
\* The values a sample, a seed or an observation can take.
Vals == {0, 1}
Indices == 0..(MaxT - 1)

\* ------------------------------------------------- float32 scalars
\* A scalar is a finite number (modelled exactly, as an integer), an
\* infinity or NaN; +, - and < follow IEEE 754 on the non-finite values.
Fin(n) == <<"fin", n>>
PosInf == <<"pinf", 0>>
NegInf == <<"ninf", 0>>
NaN == <<"nan", 0>>

IsFin(a) == a[1] = "fin"

FNeg(a) ==
  CASE a[1] = "fin" -> Fin(-a[2])
    [] a[1] = "pinf" -> NegInf
    [] a[1] = "ninf" -> PosInf
    [] OTHER -> NaN

FAdd(a, b) ==
  IF a[1] = "nan" \/ b[1] = "nan" THEN NaN
  ELSE IF a[1] = "fin" /\ b[1] = "fin" THEN Fin(a[2] + b[2])
  ELSE IF a[1] = "fin" THEN b
  ELSE IF b[1] = "fin" THEN a
  ELSE IF a[1] = b[1] THEN a
  ELSE NaN

FSub(a, b) == FAdd(a, FNeg(b))

\* accept = tf.log(u) < ratio: false whenever an operand is NaN.
FLess(a, b) ==
  IF a[1] = "nan" \/ b[1] = "nan" THEN FALSE
  ELSE IF a[1] = "fin" /\ b[1] = "fin" THEN a[2] < b[2]
  ELSE IF a[1] = "ninf" THEN b[1] # "ninf"
  ELSE IF a[1] = "pinf" THEN FALSE
  ELSE b[1] = "pinf"

\* ------------------------------------------------------- dictionaries
\* dict.copy() followed by dict.update(s): the entries of s override.
Update(d, s) ==
  [k \in (DOMAIN d) \cup (DOMAIN s) |-> IF k \in DOMAIN s THEN s[k] ELSE d[k]]

Range(s) == {s[i] : i \in 1..Len(s)}

\* The iteration orders a dict over a key set can have.
Orders(K) == {s \in [1..Cardinality(K) -> K] : Range(s) = K}

Max(a, b) == IF a > b THEN a ELSE b

\* -------------------------------------------------------------- state
VARIABLES
  pc,             \* "new", "constructed", "built", "writing", "failed", "error"
  latent_vars,    \* keys of self.latent_vars, in the dict's iteration order
  proposal_vars,  \* keys of self.proposal_vars, in the dict's iteration order
  depth,          \* per latent key: op hops from qz.params to its tf.Variable
  data,           \* self.data: key -> [key_rv, val_rv, val]
  model_wrapper,  \* "None" (structured mode) or "oracle"
  model,          \* the densities of the user's model: [g, p]
  store,          \* tf.Variable per latent: index -> value
  t,              \* self.t
  n_accept,       \* self.n_accept
  variable,       \* per latent: the tf.Variable build_update resolved
  error,          \* the exception build_update raised, or "none"
  old_sample, new_sample, dict_swap, dict_swap_old, dict_swap_new,
  lik_obs,        \* the values given to log_prob on lines 118 and 119
  read_at,        \* per latent: the index tf.gather read
  ratio, log_u, accept, sample,
  pending,        \* assign ops of the group that have not run yet
  failed,         \* whether an op of the step raised
  pre_store, pre_n,  \* history: store and n_accept when the step began
  accepts         \* history: accept of every step that began, in order

config == <<latent_vars, proposal_vars, depth, data, model_wrapper, model>>
chain == <<store, t, n_accept>>
built == <<variable, error>>
step == <<old_sample, new_sample, dict_swap, dict_swap_old, dict_swap_new,
          lik_obs, read_at, ratio, log_u, accept, sample>>
hist == <<pre_store, pre_n, accepts>>
vars == <<pc, config, chain, built, step, pending, failed, hist>>

Keys(d) == Range(d)

\* The keys of self.data: x is a RandomVariable of the model, ph is not
\* (a placeholder), so line 73 skips it.
DataKeys == {"x", "ph"}
DataOrder == <<"x", "ph">>
RVDataKeys == {x \in DataKeys : data[x].key_rv}

\* ------------------------------------------- densities of the user's model
\* copy(proposal_z, ctx).log_prob(v): g(v | ctx), a random walk around the
\* value ctx gives z ("sym") or around that value plus one ("asym").
LogProbProposal(z, ctx, v) ==
  IF model.g = "sym" THEN Fin(-((v - ctx[z]) * (v - ctx[z])))
  ELSE Fin(-((v - ctx[z] - 1) * (v - ctx[z] - 1)))

\* The mean of the prior of z: z2 is centred on the value ctx gives z1.
PriorMean(z, ctx) == IF z = "z2" /\ "z1" \in DOMAIN ctx THEN ctx["z1"] ELSE 0

\* copy(z, ctx).log_prob(v): p(v | ctx).
LogProbPrior(z, ctx, v) ==
  CASE model.p = "flat" -> Fin(0)
    [] model.p = "normal" -> Fin(-((v - PriorMean(z, ctx)) * (v - PriorMean(z, ctx))))
    [] model.p = "bounded" -> IF v = 0 THEN Fin(0) ELSE NegInf
    [] OTHER -> IF v = 1 THEN PosInf ELSE Fin(0)

RECURSIVE SumLatents(_, _)
SumLatents(S, ctx) ==
  IF S = {} THEN 0
  ELSE LET z == CHOOSE y \in S : TRUE
       IN  (IF z \in DOMAIN ctx THEN ctx[z] ELSE 0) + SumLatents(S \ {z}, ctx)

\* copy(x, ctx).log_prob(v): p(x = v | ctx), x centred on the sum of the latents.
LogProbLikelihood(x, ctx, v) ==
  IF model.p = "flat" THEN Fin(0)
  ELSE Fin(-((v - SumLatents(Latents, ctx)) * (v - SumLatents(Latents, ctx))))

RECURSIVE SumPrior(_, _)
SumPrior(S, zs) ==
  IF S = {} THEN Fin(0)
  ELSE LET z == CHOOSE y \in S : TRUE
       IN  FAdd(LogProbPrior(z, zs, zs[z]), SumPrior(S \ {z}, zs))

\* model_wrapper.log_prob(xs, zs): the joint log density of the raw data
\* mapping and an assignment of the latents.
OracleLogProb(xs, zs) ==
  FAdd(SumPrior(DOMAIN zs, zs), LogProbLikelihood("x", zs, xs["x"].val))

\* ---------------------------------------------------------- build_update
\* Variant: the gather reads the index of the current step.
ReadIndexCurrent(tt) == tt

\* Line 66: the index tf.gather reads, tf.maximum(self.t - 1, 0).
ReadIndex(tt) == Max(tt - 1, 0)

\* Line 143: the index tf.scatter_update writes, self.t.
WriteIndex(tt) == tt

\* Lines 66-67: old_sample, read through qz.params from z's own variable.
OldSample(st, tt) == [z \in Keys(latent_vars) |-> st[z][ReadIndex(tt)]]

\* Lines 71-78: dict_swap; qx holds the value drawn from each qx that is a
\* RandomVariable (qx_copy.value() is one tensor of the graph).
DictSwap(qx) ==
  [x \in RVDataKeys |-> IF data[x].val_rv THEN qx[x] ELSE data[x].val]

\* Lines 80-81.
DictSwapOld(ds, os) == Update(ds, os)

\* Variant: the new half of the ratio conditions on another draw of qx.
DictSwapNewRedrawn(ds, ns) == Update([x \in DOMAIN ds |-> 1 - ds[x]], ns)

\* Lines 94-95.
DictSwapNew(ds, ns) == Update(ds, ns)

\* Lines 118 and 119: the value the likelihood of x is evaluated at.
LikObsNew(ds, x) == ds[x]
LikObsOld(ds, x) == ds[x]

\* Lines 86-92: ratio += log g(znew | zold), over proposal_vars in order.
RECURSIVE AddForward(_, _, _, _)
AddForward(r, i, dso, ns) ==
  IF i > Len(proposal_vars) THEN r
  ELSE LET z == proposal_vars[i]
       IN  AddForward(FAdd(r, LogProbProposal(z, dso, ns[z])), i + 1, dso, ns)

\* Variant: the reverse proposal density is added instead of subtracted.
RECURSIVE AddReverse(_, _, _, _)
AddReverse(r, i, dsn, dso) ==
  IF i > Len(proposal_vars) THEN r
  ELSE LET z == proposal_vars[i]
       IN  AddReverse(FAdd(r, LogProbProposal(z, dsn, dso[z])), i + 1, dsn, dso)

\* Lines 97-101: ratio -= log g(zold | znew), over proposal_vars in order.
RECURSIVE SubReverse(_, _, _, _)
SubReverse(r, i, dsn, dso) ==
  IF i > Len(proposal_vars) THEN r
  ELSE LET z == proposal_vars[i]
       IN  SubReverse(FSub(r, LogProbProposal(z, dsn, dso[z])), i + 1, dsn, dso)

\* Lines 104-110: the priors, over latent_vars in order.
RECURSIVE AddPriors(_, _, _, _)
AddPriors(r, i, dsn, dso) ==
  IF i > Len(latent_vars) THEN r
  ELSE LET z == latent_vars[i]
           r1 == FAdd(r, LogProbPrior(z, dsn, dsn[z]))
           r2 == FSub(r1, LogProbPrior(z, dso, dso[z]))
       IN  AddPriors(r2, i + 1, dsn, dso)

\* Lines 112-119: the likelihoods, over the RandomVariable keys of data.
RECURSIVE AddLikelihoods(_, _, _, _, _)
AddLikelihoods(r, i, dsn, dso, ds) ==
  IF i > Len(DataOrder) THEN r
  ELSE LET x == DataOrder[i]
       IN  IF data[x].key_rv
           THEN LET r1 == FAdd(r, LogProbLikelihood(x, dsn, LikObsNew(ds, x)))
                    r2 == FSub(r1, LogProbLikelihood(x, dso, LikObsOld(ds, x)))
                IN  AddLikelihoods(r2, i + 1, dsn, dso, ds)
           ELSE AddLikelihoods(r, i + 1, dsn, dso, ds)

\* Lines 103-119, structured mode.
RatioStructured(r, dsn, dso, ds) ==
  AddLikelihoods(AddPriors(r, 1, dsn, dso), 1, dsn, dso, ds)

\* Lines 120-123, oracle mode.
RatioOracle(r, ns, os) ==
  FSub(FAdd(r, OracleLogProb(data, ns)), OracleLogProb(data, os))

\* Lines 85-123: the acceptance ratio.
Ratio(os, ds, ns) ==
  LET dso == DictSwapOld(ds, os)
      dsn == DictSwapNew(ds, ns)
      r == SubReverse(AddForward(Fin(0), 1, dso, ns), 1, dsn, dso)
  IN  IF model_wrapper = "None" THEN RatioStructured(r, dsn, dso, ds)
      ELSE RatioOracle(r, ns, os)

\* Variant: accept unless ratio < log(u).
AcceptUnlessLess(lu, r) == ~FLess(r, lu)

\* Line 127.
Accept(lu, r) == FLess(lu, r)

\* Lines 128-129: tf.cond picks list(itervalues(new_sample)) or
\* list(itervalues(old_sample)), each in its own dict's iteration order, and
\* returns the tensor itself, not a list, when the list has one element.
Cond(acc, ns, os) ==
  LET l == IF acc THEN [i \in 1..Len(proposal_vars) |-> ns[proposal_vars[i]]]
           ELSE [i \in 1..Len(latent_vars) |-> os[latent_vars[i]]]
  IN  IF Len(l) = 1 THEN [is_list |-> FALSE, value |-> l[1]]
      ELSE [is_list |-> TRUE, value |-> l]

\* Lines 128-132: sample_values, a list again.
SampleValues(acc, ns, os) ==
  LET c == Cond(acc, ns, os)
  IN  IF ~c.is_list THEN <<c.value>> ELSE c.value

\* Lines 134-135: zip(iterkeys(new_sample), sample_values).
Sample(sv) ==
  [z \in Keys(proposal_vars) |-> sv[CHOOSE i \in 1..Len(proposal_vars) : proposal_vars[i] = z]]

\* Line 142: qz.params.op.inputs[0].op.inputs[0].name looked up in the
\* variables of the graph. The ops between the handle and the variable form
\* a chain of depth[z] hops; a tf.Variable op has no inputs.
Hops == 2

\* Variant: a handle one hop from its variable is resolved too.
ResolveOneHop(z) ==
  IF depth[z] < Hops - 1 THEN "IndexError"
  ELSE IF depth[z] > Hops THEN "KeyError"
  ELSE z

Resolve(z) ==
  IF depth[z] < Hops THEN "IndexError"
  ELSE IF depth[z] > Hops THEN "KeyError"
  ELSE z

\* The exception build_update raises, in the order of its lines, or "none".
BuildError ==
  IF \E z \in Keys(proposal_vars) : z \notin Keys(latent_vars)
    THEN "KeyError:101"
  ELSE IF model_wrapper = "None" /\ \E z \in Keys(latent_vars) : z \notin Keys(proposal_vars)
    THEN "KeyError:109"
  ELSE IF Len(proposal_vars) # Len(latent_vars)
    THEN "ValueError:128"
  ELSE IF \E z \in Keys(latent_vars) : Resolve(z) = "IndexError"
    THEN "IndexError:142"
  ELSE IF \E z \in Keys(latent_vars) : Resolve(z) = "KeyError"
    THEN "KeyError:142"
  ELSE "none"

\* Lines 138-146: the ops tf.group collects, one scatter_update per latent
\* (named by the latent) and the assign_add of n_accept.
AssignOps == Keys(latent_vars) \cup {"n_accept"}

\* The ops of the step the ratio is computed from.
RatioDeps ==
  {"gather", "proposal_sample", "proposal_log_prob"}
    \cup (IF model_wrapper = "None"
          THEN {"prior_log_prob", "likelihood_log_prob"}
                 \cup (IF \E x \in RVDataKeys : data[x].val_rv THEN {"qx_sample"} ELSE {})
          ELSE {"oracle_log_prob"})

\* Variant: scatter_update takes the samples without the cond on accept.
DepsNoCond(op) ==
  IF op = "n_accept" THEN {"uniform"} \cup RatioDeps
  ELSE {"gather", "proposal_sample"}

\* The ops an assign op takes its inputs from: accept (lines 128, 146) comes
\* from u and ratio; a scatter_update also takes the samples themselves.
Deps(op) ==
  IF op = "n_accept" THEN {"uniform"} \cup RatioDeps
  ELSE {"uniform", "gather", "proposal_sample"} \cup RatioDeps

\* The ops of one step that can raise when the group is run.
FailurePoints == UNION {Deps(op) : op \in AssignOps}

\* ------------------------------------------------------------- actions
NoStep ==
  /\ old_sample = <<>> /\ new_sample = <<>> /\ dict_swap = <<>>
  /\ dict_swap_old = <<>> /\ dict_swap_new = <<>> /\ lik_obs = <<>>
  /\ read_at = <<>> /\ ratio = Fin(0) /\ log_u = Fin(0)
  /\ accept = FALSE /\ sample = <<>>

Init ==
  /\ pc = "new"
  /\ latent_vars = <<>> /\ proposal_vars = <<>> /\ depth = <<>>
  /\ data = <<>> /\ model_wrapper = "None" /\ model = [g |-> "sym", p |-> "flat"]
  /\ store = <<>> /\ t = 0 /\ n_accept = 0
  /\ variable = <<>> /\ error = "none"
  /\ NoStep
  /\ pending = {} /\ failed = FALSE
  /\ pre_store = <<>> /\ pre_n = 0 /\ accepts = <<>>

KeyOrders == UNION {Orders(K) : K \in (SUBSET Latents) \ {{}}}
Models ==
  { [g |-> "sym", p |-> "flat"], [g |-> "sym", p |-> "normal"],
    [g |-> "asym", p |-> "normal"], [g |-> "sym", p |-> "bounded"],
    [g |-> "asym", p |-> "spike"] }
LogUs == {NegInf} \cup {Fin(-k) : k \in 1..MaxLogU}

\* Lines 32-56: __init__ stores proposal_vars and hands latent_vars, data and
\* model_wrapper to MonteCarlo.__init__. Every Empirical store holds its
\* seed at index 0; t and n_accept start at 0.
Construct ==
  /\ pc = "new"
  /\ \E lv \in KeyOrders, pv \in KeyOrders, qx_rv \in BOOLEAN,
        mw \in {"None", "oracle"}, md \in Models :
       \E dp \in [Range(lv) -> 0..MaxDepth], seed \in [Range(lv) -> Vals] :
         /\ latent_vars' = lv
         /\ proposal_vars' = pv
         /\ depth' = dp
         /\ data' = [k \in DataKeys |->
                       IF k = "x" THEN [key_rv |-> TRUE, val_rv |-> qx_rv, val |-> 1]
                       ELSE [key_rv |-> FALSE, val_rv |-> FALSE, val |-> 0]]
         /\ model_wrapper' = mw
         /\ model' = md
         /\ store' = [z \in Range(lv) |-> [i \in Indices |-> IF i = 0 THEN seed[z] ELSE 0]]
         /\ pre_store' = store'
  /\ pc' = "constructed"
  /\ UNCHANGED <<t, n_accept, built, step, pending, failed, pre_n, accepts>>

\* Lines 58-147: build_update builds the graph of one step, or raises.
BuildUpdate ==
  /\ pc = "constructed"
  /\ error' = BuildError
  /\ IF BuildError = "none"
       THEN /\ pc' = "built"
            /\ variable' = [z \in Keys(latent_vars) |-> Resolve(z)]
       ELSE /\ pc' = "error"
            /\ UNCHANGED variable
  /\ UNCHANGED <<config, chain, step, pending, failed, hist>>

\* Running the group op for step t, up to the assign ops: the samples are
\* read and drawn, ratio and accept computed. f is the op that raises
\* ("none": no op does); an assign op can still run only if none of the ops
\* it takes its inputs from raised.
Compute(f) ==
  /\ pc = "built"
  /\ t < MaxT
  /\ \E qx \in [{x \in RVDataKeys : data[x].val_rv} -> Vals],
        ns \in [Keys(proposal_vars) -> Vals], lu \in LogUs :
       LET os == OldSample(store, t)
           ds == DictSwap(qx)
           r == Ratio(os, ds, ns)
           acc == Accept(lu, r)
       IN  /\ old_sample' = os
           /\ read_at' = [z \in Keys(latent_vars) |-> ReadIndex(t)]
           /\ dict_swap' = ds
           /\ dict_swap_old' = DictSwapOld(ds, os)
           /\ new_sample' = ns
           /\ dict_swap_new' = DictSwapNew(ds, ns)
           /\ lik_obs' = [x \in RVDataKeys |->
                            [new |-> LikObsNew(ds, x), old |-> LikObsOld(ds, x)]]
           /\ ratio' = r
           /\ log_u' = lu
           /\ accept' = acc
           /\ sample' = Sample(SampleValues(acc, ns, os))
           /\ accepts' = IF f = "none" THEN Append(accepts, acc) ELSE accepts
  /\ pre_store' = store
  /\ pre_n' = n_accept
  /\ failed' = (f # "none")
  /\ pending' = {op \in AssignOps : f \notin Deps(op)}
  /\ pc' = IF f = "none" THEN "writing" ELSE "failed"
  /\ UNCHANGED <<config, chain, built>>

StepCompute == Compute("none")

StepFail ==
  /\ pc = "built"
  /\ \E f \in FailurePoints : Compute(f)

\* Line 143: tf.scatter_update(variable, self.t, sample[z]).
ScatterUpdate(st, z, tt, v) ==
  [st EXCEPT ![variable[z]] = [@ EXCEPT ![WriteIndex(tt)] = v]]

\* Variant: every step is counted.
AssignAddAlways(n, acc) == n + 1

\* Line 146: self.n_accept.assign_add(tf.select(accept, 1, 0)).
AssignAdd(n, acc) == n + (IF acc THEN 1 ELSE 0)

\* Line 147: tf.group only collects the assign ops; the executor runs them
\* one at a time, in any order.
ExecAssign ==
  /\ pc \in {"writing", "failed"}
  /\ \E op \in pending :
       /\ pending' = pending \ {op}
       /\ IF op = "n_accept"
            THEN /\ n_accept' = AssignAdd(n_accept, accept)
                 /\ UNCHANGED store
            ELSE /\ store' = ScatterUpdate(store, op, t, sample[op])
                 /\ UNCHANGED n_accept
  /\ UNCHANGED <<pc, config, t, built, step, failed, hist>>

\* The chain driver (MonteCarlo.update) increments t once the step has run.
IncrementT ==
  /\ pc = "writing"
  /\ pending = {}
  /\ t' = t + 1
  /\ pc' = "built"
  /\ old_sample' = <<>> /\ new_sample' = <<>> /\ dict_swap' = <<>>
  /\ dict_swap_old' = <<>> /\ dict_swap_new' = <<>> /\ lik_obs' = <<>>
  /\ read_at' = <<>> /\ ratio' = Fin(0) /\ log_u' = Fin(0)
  /\ accept' = FALSE /\ sample' = <<>>
  /\ UNCHANGED <<config, store, n_accept, built, pending, failed, hist>>

Next ==
  \/ Construct
  \/ BuildUpdate
  \/ StepCompute
  \/ StepFail
  \/ ExecAssign
  \/ IncrementT

Spec == Init /\ [][Next]_vars

\* -------------------------------------------------------------- claims
\* Every assign op of the step has run.
StepDone == pc = "writing" /\ pending = {}

KeySetsEqual == Keys(latent_vars) = Keys(proposal_vars)

\* C1: at the end of every step, each latent z holds at index t its own
\* new_sample[z] if accept and its own old_sample[z] if not, whatever the
\* iteration orders of latent_vars and proposal_vars.
C1_JointCommit ==
  StepDone =>
    \A z \in Keys(latent_vars) :
      store[z][t] = IF accept THEN new_sample[z] ELSE old_sample[z]

RECURSIVE CountTrue(_)
CountTrue(q) ==
  IF q = <<>> THEN 0 ELSE (IF Head(q) THEN 1 ELSE 0) + CountTrue(Tail(q))

\* C2: n_accept never decreases, no transition adds more than 1, a finished
\* step has added 1 if its accept is true and 0 otherwise, and n_accept is
\* then the number of accepted steps so far.
C2_AcceptCount ==
  [][ /\ n_accept' >= n_accept
      /\ n_accept' <= n_accept + 1
      /\ StepDone' =>
           /\ n_accept' = pre_n' + (IF accept' THEN 1 ELSE 0)
           /\ n_accept' = CountTrue(accepts')
           /\ Len(accepts') = t' + 1 ]_vars

C2_Witness ==
  StepDone /\ t = 1 /\ accepts = <<TRUE, FALSE>> /\ n_accept = 1

\* The conditioning contexts the claim speaks of: every latent at its new
\* (old) sample, every RandomVariable data key at dict_swap's value.
NewContext ==
  [k \in Keys(latent_vars) \cup RVDataKeys |->
     IF k \in Keys(latent_vars) THEN new_sample[k] ELSE dict_swap[k]]
OldContext ==
  [k \in Keys(latent_vars) \cup RVDataKeys |->
     IF k \in Keys(latent_vars) THEN old_sample[k] ELSE dict_swap[k]]

ProposalForward(z) == LogProbProposal(z, OldContext, new_sample[z])
ProposalReverse(z) == LogProbProposal(z, NewContext, old_sample[z])

RECURSIVE SumForward(_)
SumForward(S) ==
  IF S = {} THEN Fin(0)
  ELSE LET z == CHOOSE y \in S : TRUE IN FAdd(ProposalForward(z), SumForward(S \ {z}))

RECURSIVE SumReverse(_)
SumReverse(S) ==
  IF S = {} THEN Fin(0)
  ELSE LET z == CHOOSE y \in S : TRUE IN FAdd(ProposalReverse(z), SumReverse(S \ {z}))

RECURSIVE SumPriorAt(_, _, _)
SumPriorAt(S, ctx, zs) ==
  IF S = {} THEN Fin(0)
  ELSE LET z == CHOOSE y \in S : TRUE
       IN  FAdd(LogProbPrior(z, ctx, zs[z]), SumPriorAt(S \ {z}, ctx, zs))

RECURSIVE SumLikelihoodAt(_, _)
SumLikelihoodAt(S, ctx) ==
  IF S = {} THEN Fin(0)
  ELSE LET x == CHOOSE y \in S : TRUE
       IN  FAdd(LogProbLikelihood(x, ctx, dict_swap[x]), SumLikelihoodAt(S \ {x}, ctx))

\* C3: in structured mode ratio is the sum over the latents of
\* + log g(znew | zold) - log g(zold | znew) + log p(znew | new context)
\* - log p(zold | old context), plus the sum over the RandomVariable data
\* keys of + log p(x = dict_swap[x] | new context)
\* - log p(x = dict_swap[x] | old context).
C3_RatioStructured ==
  (pc = "writing" /\ model_wrapper = "None") =>
    ratio =
      FAdd(FSub(SumForward(Keys(latent_vars)), SumReverse(Keys(latent_vars))),
           FAdd(FSub(SumPriorAt(Keys(latent_vars), NewContext, new_sample),
                     SumPriorAt(Keys(latent_vars), OldContext, old_sample)),
                FSub(SumLikelihoodAt(RVDataKeys, NewContext),
                     SumLikelihoodAt(RVDataKeys, OldContext))))

C3_Witness ==
  /\ pc = "writing" /\ model_wrapper = "None" /\ Len(latent_vars) = 2
  /\ model = [g |-> "asym", p |-> "normal"]
  /\ data["x"].val_rv
  /\ \A z \in Keys(latent_vars) : new_sample[z] # old_sample[z]
  /\ SumForward(Keys(latent_vars)) # SumReverse(Keys(latent_vars))
  /\ SumLikelihoodAt(RVDataKeys, NewContext) # SumLikelihoodAt(RVDataKeys, OldContext)
  /\ ratio # Fin(0)

\* C4: a step at index t reads every latent's store only at index
\* max(t-1, 0), an index of the store, and writes it only at index t; all
\* other indices keep the values they had when the step began.
C4_ReadWriteIndices ==
  pc = "writing" =>
    /\ t \in Indices
    /\ \A z \in Keys(latent_vars) :
         /\ read_at[z] = (IF t = 0 THEN 0 ELSE t - 1)
         /\ read_at[z] \in Indices
         /\ old_sample[z] = pre_store[z][read_at[z]]
         /\ \A i \in Indices \ {t} : store[z][i] = pre_store[z][i]
         /\ store[z][t] = IF z \in pending THEN pre_store[z][t] ELSE sample[z]

C4_Witness ==
  /\ StepDone /\ t = 1
  /\ \E z \in Keys(latent_vars) :
       /\ old_sample[z] = 1 /\ store[z][0] = 1 /\ pre_store[z][0] = 1
       /\ store[z][1] = 1 /\ pre_store[z][1] = 0

\* The stores and the counter once every assign op of the step has run.
StoreAfterStep ==
  [z \in Keys(latent_vars) |-> [pre_store[z] EXCEPT ![t] = sample[z]]]
CountAfterStep == pre_n + (IF accept THEN 1 ELSE 0)

\* C5: no state shows part of a step: while the group runs, the stores and
\* n_accept hold either all their values from before the step or all their
\* values from after it.
C5_AtomicStep ==
  pc = "writing" =>
    \/ (store = pre_store /\ n_accept = pre_n)
    \/ (store = StoreAfterStep /\ n_accept = CountAfterStep)

\* C6: when an op of the step raises, or build_update raises, the stores
\* and n_accept are those the previous step left.
C6_FailedStepWritesNothing ==
  pc \in {"failed", "error"} =>
    /\ store = pre_store
    /\ n_accept = pre_n

C6_Witness ==
  /\ pc = "failed" /\ t = 1 /\ n_accept = 1
  /\ \E z \in Keys(latent_vars) : new_sample[z] # old_sample[z]
  /\ accept

\* C7: an inference whose latent_vars and proposal_vars have different key
\* sets is never constructed.
C7_KeySetsCheckedAtConstruction ==
  pc = "constructed" => KeySetsEqual

\* The data keys whose value is a RandomVariable qx.
DrawnKeys == {x \in RVDataKeys : data[x].val_rv}

\* C8: the value drawn from qx into dict_swap[x] is the value of x in
\* dict_swap_old and in dict_swap_new, and the value both likelihoods of x
\* are evaluated at.
C8_SingleDraw ==
  pc = "writing" =>
    \A x \in DrawnKeys :
      /\ dict_swap[x] \in Vals
      /\ dict_swap_old[x] = dict_swap[x]
      /\ dict_swap_new[x] = dict_swap[x]
      /\ lik_obs[x].new = dict_swap[x]
      /\ lik_obs[x].old = dict_swap[x]

C8_Witness ==
  /\ pc = "writing" /\ model_wrapper = "None" /\ Len(latent_vars) = 2
  /\ "x" \in DrawnKeys /\ dict_swap["x"] = 1
  /\ \A z \in Keys(latent_vars) : new_sample[z] = 0 /\ old_sample[z] = 1

\* The target density of an assignment zs of the latents, in its context.
Target(ctx, zs) ==
  IF model_wrapper = "None"
    THEN FAdd(SumPriorAt(Keys(latent_vars), ctx, zs), SumLikelihoodAt(RVDataKeys, ctx))
    ELSE OracleLogProb(data, zs)

SymmetricProposal ==
  \A z \in Keys(latent_vars) : ProposalForward(z) = ProposalReverse(z)

SameTarget ==
  /\ Target(NewContext, new_sample) # NaN
  /\ Target(NewContext, new_sample) = Target(OldContext, old_sample)

FiniteTarget ==
  IsFin(Target(NewContext, new_sample)) /\ IsFin(Target(OldContext, old_sample))

====
